---- MODULE Spec2Model ----
(***************************************************************************)
(* Model of the Radiology-Templates converters (rust_converters/src/bin):  *)
(*   convert_to_markdown.rs      structured document / legacy RTF -> Markdown *)
(*   convert_to_docx.rs          Markdown -> structured document            *)
(*   convert_to_txt.rs           Markdown / structured document -> text     *)
(*   convert_txt_to_markdown.rs  plain text -> Markdown                      *)
(*                                                                         *)
(* A string is a sequence of characters; a character is a one-letter       *)
(* string.  Characters outside ASCII are written as two-letter atoms       *)
(* ("a~" is a-tilde, "a^" a-circumflex, "c," c-cedilla, "e'" "i'" "o'"     *)
(* the acute vowels, "A~" ... their capitals); ByteLen gives their UTF-8   *)
(* width, which is what Rust's str::len counts.                            *)
(***************************************************************************)
EXTENDS Integers, Sequences, FiniteSets, TLC

VARIABLES
    pc,             \* position of the running conversion
    docx,           \* the structured document read by convert_docx_to_markdown
    md_file,        \* content of the Markdown file (Templates_markdown/x.md)
    tmp_md,         \* content of the temporary Markdown file of convert_to_txt
    out_docx,       \* the structured document written by convert_file
    rtf_text,       \* convert_rtf_to_markdown: the text being cleaned
    passes,         \* convert_rtf_to_markdown: passes of the brace-group loop
    dropped,        \* convert_rtf_to_markdown: lines dropped by the noise filter
    cleaned_lines,  \* convert_rtf_to_markdown: lines surviving the cleanup
    markdown_lines, \* convert_rtf_to_markdown: classified lines
    result,         \* convert_rtf_to_markdown: lines after blank-line collapse
    txt_lines,      \* convert_txt_file: the lines read from the text file
    formatted,      \* convert_txt_file: output of format_lines_as_markdown
    txt_file,       \* content of the text file (Templates_txt/x.txt)
    operation,      \* a run over a folder: which conversion is running
    in_files,       \* a run over a folder: the input files, in processing order
    out_files,      \* a run over a folder: the output file of each input
    old_files,      \* a run over a folder: the output files when the run began
    tmp_dir,        \* convert_from_docx: the temporary directory and its files
    file_idx,       \* a run over a folder: the input the loop is at
    dirs,           \* housekeeping: the target folders that exist
    entries,        \* housekeeping: the directory entries of the target folders
    backup_entries, \* housekeeping: the paths that exist under backup/
    manifest,       \* housekeeping: reports_index.json: whether it exists, its map
    fresh,          \* housekeeping: generate_index ran and no file changed since
    target_idx,     \* move_unindexed: the TARGETS element the outer loop is at
    visited,        \* move_unindexed: the entries the inner loop has handled
    moved           \* move_unindexed: the files moved, as returned

codecVars == <<docx, md_file, tmp_md, out_docx>>
legacyVars == <<rtf_text, passes, dropped, cleaned_lines, markdown_lines, result>>
promoterVars == <<txt_lines, formatted>>
batchVars == <<operation, in_files, out_files, old_files, tmp_dir, file_idx>>
backupVars ==
    <<dirs, entries, backup_entries, manifest, fresh, target_idx, visited, moved>>
vars == <<pc, codecVars, legacyVars, promoterVars, txt_file, batchVars, backupVars>>

\* a file: whether it exists, and its content
NoFile == [exists |-> FALSE, content |-> <<>>]
File(c) == [exists |-> TRUE, content |-> c]

(***************************************************************************)
(* Characters and strings                                                  *)
(***************************************************************************)
NL == "\n"
LowerAscii == {"a", "b", "c", "d", "e", "f", "g", "h", "i", "j", "k", "l", "m",
               "n", "o", "p", "q", "r", "s", "t", "u", "v", "w", "x", "y", "z"}
UpperAscii == {"A", "B", "C", "D", "E", "F", "G", "H", "I", "J", "K", "L", "M",
               "N", "O", "P", "Q", "R", "S", "T", "U", "V", "W", "X", "Y", "Z"}
LowerWide == {"a~", "a^", "c,", "e'", "i'", "o'"}
UpperWide == {"A~", "A^", "C,", "E'", "I'", "O'"}
Digits == {"0", "1", "2", "3", "4", "5", "6", "7", "8", "9"}
HexDigits == Digits \cup {"a", "b", "c", "d", "e", "f", "A", "B", "C", "D", "E", "F"}
AsciiLetters == LowerAscii \cup UpperAscii
Whitespace == {" ", NL, "\t", "\r"}

LowerOf == [c \in UpperAscii \cup UpperWide |->
    CASE c = "A" -> "a" [] c = "B" -> "b" [] c = "C" -> "c" [] c = "D" -> "d"
      [] c = "E" -> "e" [] c = "F" -> "f" [] c = "G" -> "g" [] c = "H" -> "h"
      [] c = "I" -> "i" [] c = "J" -> "j" [] c = "K" -> "k" [] c = "L" -> "l"
      [] c = "M" -> "m" [] c = "N" -> "n" [] c = "O" -> "o" [] c = "P" -> "p"
      [] c = "Q" -> "q" [] c = "R" -> "r" [] c = "S" -> "s" [] c = "T" -> "t"
      [] c = "U" -> "u" [] c = "V" -> "v" [] c = "W" -> "w" [] c = "X" -> "x"
      [] c = "Y" -> "y" [] c = "Z" -> "z" [] c = "A~" -> "a~" [] c = "C," -> "c,"
      [] c = "E'" -> "e'" [] c = "I'" -> "i'" [] c = "O'" -> "o'" [] c = "A^" -> "a^"]

UpperOf == [c \in LowerAscii \cup LowerWide |->
    CHOOSE u \in UpperAscii \cup UpperWide : LowerOf[u] = c]

\* char::to_lowercase / char::to_uppercase
LowerChar(c) == IF c \in DOMAIN LowerOf THEN LowerOf[c] ELSE c
UpperChar(c) == IF c \in DOMAIN UpperOf THEN UpperOf[c] ELSE c

\* str::to_lowercase / str::to_uppercase
to_lowercase(s) == [i \in 1..Len(s) |-> LowerChar(s[i])]
to_uppercase(s) == [i \in 1..Len(s) |-> UpperChar(s[i])]

\* char::is_alphanumeric
is_alphanumeric(c) ==
    c \in AsciiLetters \cup LowerWide \cup UpperWide \cup Digits

\* UTF-8 width of a character
ByteWidth(c) == IF c \in LowerWide \cup UpperWide THEN 2 ELSE 1

\* str::len: the length in bytes, one for every character and one more for
\* every character of width 2
ByteLen(s) == Len(s) + Cardinality({k \in 1..Len(s) : ByteWidth(s[k]) = 2})

\* the number of characters (chars().count())
CharLen(s) == Len(s)

RECURSIVE trim_start(_)
trim_start(s) ==
    IF s # <<>> /\ Head(s) \in Whitespace THEN trim_start(Tail(s)) ELSE s

RECURSIVE trim_end(_)
trim_end(s) ==
    IF s # <<>> /\ s[Len(s)] \in Whitespace
    THEN trim_end(SubSeq(s, 1, Len(s) - 1)) ELSE s

\* str::trim
trim(s) == trim_end(trim_start(s))

\* str::starts_with / ends_with / contains
starts_with(s, p) == Len(p) <= Len(s) /\ SubSeq(s, 1, Len(p)) = p
ends_with(s, p) == Len(p) <= Len(s) /\ SubSeq(s, Len(s) - Len(p) + 1, Len(s)) = p
contains(s, p) ==
    \E i \in 1..(Len(s) - Len(p) + 1) : SubSeq(s, i, i + Len(p) - 1) = p

RECURSIVE Concat(_)
\* concatenation of a sequence of strings (join(""))
Concat(ss) == IF ss = <<>> THEN <<>> ELSE Head(ss) \o Concat(Tail(ss))

RECURSIVE JoinNL(_)
\* Vec<String>::join("\n")
JoinNL(ss) ==
    IF ss = <<>> THEN <<>>
    ELSE IF Len(ss) = 1 THEN ss[1]
    ELSE ss[1] \o <<NL>> \o JoinNL(Tail(ss))

RECURSIVE SplitNL(_, _)
\* the pieces of s between line feeds, cur being the piece under way
SplitNL(s, cur) ==
    IF s = <<>> THEN <<cur>>
    ELSE IF Head(s) = NL THEN <<cur>> \o SplitNL(Tail(s), <<>>)
    ELSE SplitNL(Tail(s), Append(cur, Head(s)))

\* str::lines: split at line feeds; a final empty piece is no line
lines(s) ==
    LET pieces == SplitNL(s, <<>>)
    IN IF pieces[Len(pieces)] = <<>>
       THEN SubSeq(pieces, 1, Len(pieces) - 1) ELSE pieces

\* n copies of the string s
Repeat(s, n) == [k \in 1..(n * Len(s)) |-> s[((k - 1) % Len(s)) + 1]]

\* the sequences over S of length at most n
SeqUpTo(S, n) == UNION {[1..k -> S] : k \in 0..n}

(***************************************************************************)
(* The structured document as read (docx_rust): a sequence of paragraphs, *)
(* a paragraph a sequence of runs.  A run's bold and italics attributes    *)
(* are Option<Bold{value: Option<bool>}>: "absent" (None), "unset" (the    *)
(* element without a value), "true", "false".  Its underline attribute is  *)
(* Option<Underline{val: Option<UnderlineStyle>}>: "absent", "unset",      *)
(* "single" (any style but None), "none" (UnderlineStyle::None).  A run    *)
(* without a property element behaves as one with the three absent.        *)
(***************************************************************************)
ToggleAttr == {"absent", "unset", "true", "false"}
UnderlineAttr == {"absent", "unset", "single", "none"}

InRun(t, b, i, u) == [text |-> t, bold |-> b, italics |-> i, underline |-> u]

\* Paragraph::text(): the text of the paragraph's runs
ParagraphText(p) == Concat([k \in 1..Len(p) |-> p[k].text])

\* convert_to_markdown.rs: bold_is_on
bold_is_on(flag) ==
    IF flag = "absent" THEN FALSE
    ELSE IF flag = "unset" THEN TRUE
    ELSE flag = "true"

\* convert_to_markdown.rs: italics_is_on
italics_is_on(flag) ==
    IF flag = "absent" THEN FALSE
    ELSE IF flag = "unset" THEN TRUE
    ELSE flag = "true"

\* convert_to_markdown.rs: underline_is_on
underline_is_on(flag) ==
    IF flag = "absent" THEN FALSE
    ELSE IF flag = "none" THEN FALSE
    ELSE TRUE

Stars2 == <<"*", "*">>
Star1 == <<"*">>
Under2 == <<"_", "_">>

\* convert_to_markdown.rs: the wrapping of one run (lines 66-81)
MdWrapRun(run) ==
    LET t0 == run.text
        t1 == IF bold_is_on(run.bold) THEN Stars2 \o t0 \o Stars2 ELSE t0
        t2 == IF italics_is_on(run.italics) THEN Star1 \o t1 \o Star1 ELSE t1
        t3 == IF underline_is_on(run.underline) THEN Under2 \o t2 \o Under2 ELSE t2
    IN t3

\* convert_to_txt.rs: the wrapping of one run (lines 66-80)
TxtWrapRun(run) ==
    LET t0 == run.text
        t1 == IF run.bold # "absent" THEN Stars2 \o t0 \o Stars2 ELSE t0
        t2 == IF run.italics # "absent" THEN Star1 \o t1 \o Star1 ELSE t1
        t3 == IF run.underline # "absent" THEN Under2 \o t2 \o Under2 ELSE t2
    IN t3

\* the runs of p that have text (the loop's `continue` on an empty text)
TextRuns(p) == SelectSeq(p, LAMBDA r : r.text # <<>>)

\* convert_to_markdown.rs: paragraph_to_markdown
paragraph_to_markdown(p) ==
    LET plain == ParagraphText(p)
        runs == TextRuns(p)
        text_parts == [k \in 1..Len(runs) |-> MdWrapRun(runs[k])]
    IN IF trim(plain) = <<>> THEN <<>>
       ELSE IF text_parts = <<>> THEN plain
       ELSE Concat(text_parts)

\* convert_to_txt.rs: paragraph_to_markdown
txt_paragraph_to_markdown(p) ==
    LET plain == ParagraphText(p)
        runs == TextRuns(p)
        text_parts == [k \in 1..Len(runs) |-> TxtWrapRun(runs[k])]
    IN IF trim(plain) = <<>> THEN <<>>
       ELSE IF text_parts = <<>> THEN plain
       ELSE Concat(text_parts)

\* convert_to_markdown.rs: convert_docx_to_markdown
convert_docx_to_markdown(d) ==
    JoinNL([k \in 1..Len(d) |-> paragraph_to_markdown(d[k])])

\* convert_to_txt.rs: convert_docx_to_markdown
txt_convert_docx_to_markdown(d) ==
    JoinNL([k \in 1..Len(d) |-> txt_paragraph_to_markdown(d[k])])

\* convert_to_txt.rs: clean_markdown_text
clean_markdown_text(text) ==
    SelectSeq(SelectSeq(text, LAMBDA c : c # "*"), LAMBDA c : c # "#")

(***************************************************************************)
(* The structured document as written by convert_to_docx.rs: a paragraph   *)
(* has a justification and runs; a run has its text, bold, italics and     *)
(* size in half-points (0: the run carries no character property).         *)
(***************************************************************************)
FONT_SIZE_PT == 10
LAST_FONT_SIZE_PT == 8

OutRun(t, b, i, sz) == [text |-> t, bold |-> b, italic |-> i, size |-> sz]
OutPara(a, rs) == [align |-> a, runs |-> rs]

\* Paragraph::push_text(String::new()): a run of empty text without property
EmptyTextRun == OutRun(<<>>, FALSE, FALSE, 0)

RECURSIVE trim_start_hashes(_)
\* str::trim_start_matches('#')
trim_start_hashes(s) ==
    IF s # <<>> /\ Head(s) = "#" THEN trim_start_hashes(Tail(s)) ELSE s

\* convert_to_docx.rs: normalize_heading
normalize_heading(line) ==
    LET stripped == trim_start(line)
    IN IF stripped # <<>> /\ Head(stripped) = "#"
       THEN [text |-> trim(trim_start_hashes(stripped)), heading |-> TRUE]
       ELSE [text |-> line, heading |-> FALSE]

\* convert_to_docx.rs: append_run
append_run(runs, text, bold, italic, force_italic, font_size_pt) ==
    IF text = <<>> THEN runs
    ELSE Append(runs, OutRun(text, bold, italic \/ force_italic, font_size_pt * 2))

IsMarker(c) == c = "*" \/ c = "_"

RECURSIVE ScanFrom_NoFinalFlush(_, _, _, _, _, _, _, _)
\* mutant of ScanFrom: the buffer left at the end of the line is only
\* flushed when no emphasis is open (a dangling marker loses the tail)
ScanFrom_NoFinalFlush(chars, i, buffer, bold, italic, runs, force_italic, font_size_pt) ==
    IF i > Len(chars)
    THEN IF bold \/ italic THEN runs
         ELSE append_run(runs, buffer, bold, italic, force_italic, font_size_pt)
    ELSE LET c == chars[i]
         IN IF IsMarker(c) /\ i + 1 <= Len(chars) /\ chars[i + 1] = c
            THEN ScanFrom_NoFinalFlush(chars, i + 2, <<>>, ~bold, italic,
                          append_run(runs, buffer, bold, italic, force_italic, font_size_pt),
                          force_italic, font_size_pt)
            ELSE IF IsMarker(c)
            THEN ScanFrom_NoFinalFlush(chars, i + 1, <<>>, bold, ~italic,
                          append_run(runs, buffer, bold, italic, force_italic, font_size_pt),
                          force_italic, font_size_pt)
            ELSE ScanFrom_NoFinalFlush(chars, i + 1, Append(buffer, c), bold, italic,
                          runs, force_italic, font_size_pt)

RECURSIVE ScanFrom(_, _, _, _, _, _, _, _)
\* convert_to_docx.rs: the toggle scanner (lines 85-116), from index i
\* (1-based) with the buffer, the flags and the runs emitted so far
ScanFrom(chars, i, buffer, bold, italic, runs, force_italic, font_size_pt) ==
    IF i > Len(chars)
    THEN append_run(runs, buffer, bold, italic, force_italic, font_size_pt)
    ELSE LET c == chars[i]
         IN IF IsMarker(c) /\ i + 1 <= Len(chars) /\ chars[i + 1] = c
            THEN ScanFrom(chars, i + 2, <<>>, ~bold, italic,
                          append_run(runs, buffer, bold, italic, force_italic, font_size_pt),
                          force_italic, font_size_pt)
            ELSE IF IsMarker(c)
            THEN ScanFrom(chars, i + 1, <<>>, bold, ~italic,
                          append_run(runs, buffer, bold, italic, force_italic, font_size_pt),
                          force_italic, font_size_pt)
            ELSE ScanFrom(chars, i + 1, Append(buffer, c), bold, italic, runs,
                          force_italic, font_size_pt)

\* convert_to_docx.rs: add_markdown_paragraph, the paragraph pushed
add_markdown_paragraph(raw_line, alignment, force_italic, font_size_pt) ==
    LET nh == normalize_heading(raw_line)
    IN IF nh.text = <<>>
       THEN OutPara(alignment, <<EmptyTextRun>>)
       ELSE OutPara(alignment,
                    ScanFrom(nh.text, 1, <<>>, nh.heading, FALSE, <<>>,
                             force_italic, font_size_pt))

IsBlankLine(l) == trim(l) = <<>>

\* convert_to_docx.rs: first_written (0: None)
first_written(ls) ==
    IF \E k \in 1..Len(ls) : ~IsBlankLine(ls[k])
    THEN CHOOSE k \in 1..Len(ls) :
            ~IsBlankLine(ls[k]) /\ \A j \in 1..(k - 1) : IsBlankLine(ls[j])
    ELSE 0

\* convert_to_docx.rs: last_written (0: None)
last_written(ls) ==
    IF \E k \in 1..Len(ls) : ~IsBlankLine(ls[k])
    THEN CHOOSE k \in 1..Len(ls) :
            ~IsBlankLine(ls[k]) /\ \A j \in (k + 1)..Len(ls) : IsBlankLine(ls[j])
    ELSE 0

\* mutant of ConvertLine: the last non-blank line keeps the base size
ConvertLine_SameSize(ls, idx) ==
    LET isFirst == idx = first_written(ls)
        isLast == idx = last_written(ls)
        alignment == IF isFirst \/ isLast THEN "Center" ELSE "Justify"
    IN add_markdown_paragraph(ls[idx], alignment, isLast, FONT_SIZE_PT)

\* convert_to_docx.rs: the loop body of convert_file (lines 149-170)
ConvertLine(ls, idx) ==
    LET isFirst == idx = first_written(ls)
        isLast == idx = last_written(ls)
        alignment == IF isFirst \/ isLast THEN "Center" ELSE "Justify"
        force_italic == isLast
        font_size_pt == IF isLast THEN LAST_FONT_SIZE_PT ELSE FONT_SIZE_PT
    IN add_markdown_paragraph(ls[idx], alignment, force_italic, font_size_pt)

\* convert_to_docx.rs: convert_file, the document written for a content
convert_file(content) ==
    LET ls == lines(content)
    IN IF ls = <<>>
       THEN <<OutPara("Justify", <<EmptyTextRun>>)>>
       ELSE [idx \in 1..Len(ls) |-> ConvertLine(ls, idx)]

(***************************************************************************)
(* Bounds and inputs of the codec specifications                           *)
(***************************************************************************)
MaxRuns == 2        \* runs in the paragraph under test
MaxPad == 1         \* blank paragraphs before and after it
MaxLines == 3       \* lines of a Markdown source built from SampleLines
MaxLineLen == 4     \* length of a Markdown line built from MdAlphabet

RunLetters == <<"a", "b", "c", "d">>

\* the runs a paragraph can hold in position k: every attribute combination
RunsAt(k) ==
    {InRun(<<RunLetters[k]>>, b, i, u) :
        b \in ToggleAttr, i \in ToggleAttr, u \in UnderlineAttr}

ParasOfLen(n) == {p \in [1..n -> UNION {RunsAt(k) : k \in 1..n}] :
                    \A k \in 1..n : p[k] \in RunsAt(k)}

EmptyRunPara == <<InRun(<<>>, "absent", "absent", "absent")>>
BlankPara == <<>>
ClosingPara == <<InRun(<<"z">>, "absent", "unset", "absent")>>

MainParas == UNION {ParasOfLen(n) : n \in 0..MaxRuns} \cup {EmptyRunPara}

Docs ==
    {[k \in 1..pb |-> BlankPara] \o <<p>> \o [k \in 1..pa |-> BlankPara] \o tail :
        pb \in 0..MaxPad, pa \in 0..MaxPad, p \in MainParas,
        tail \in {<<>>, <<ClosingPara>>}}

MdAlphabet == {"a", "*", "_", "#", " "}
SampleLines == {<<>>, <<" ">>, <<"a">>, <<"*", "b", "*">>, <<"#", " ", "c">>,
                <<"*", "*", "b", "o", "l", "d">>}

MdSources ==
    {JoinNL(ls) : ls \in SeqUpTo(SampleLines, MaxLines)}
    \cup SeqUpTo(MdAlphabet, MaxLineLen)
    \cup {l \o <<NL>> : l \in SampleLines}

(***************************************************************************)
(* Operations                                                              *)
(***************************************************************************)
LegacyIdle ==
    /\ rtf_text = <<>> /\ passes = 0 /\ dropped = <<>> /\ cleaned_lines = <<>>
    /\ markdown_lines = <<>> /\ result = <<>>
PromoterIdle == txt_lines = <<>> /\ formatted = <<>>

\* no temporary directory has been created
NoTmpDir == [state |-> "none", files |-> <<>>]

BackupIdle ==
    /\ dirs = {} /\ entries = {} /\ backup_entries = {}
    /\ manifest = [exists |-> FALSE, index |-> <<>>]
    /\ fresh = FALSE /\ target_idx = 0 /\ visited = {} /\ moved = 0

BatchIdle ==
    /\ txt_file = NoFile /\ operation = "none" /\ in_files = <<>>
    /\ out_files = <<>> /\ old_files = <<>> /\ tmp_dir = NoTmpDir /\ file_idx = 0

\* convert_to_markdown.rs main: one .docx converted and written as .md
MdMain ==
    /\ pc = "docx_given"
    /\ md_file' = File(convert_docx_to_markdown(docx))
    /\ pc' = "md_written"
    /\ UNCHANGED <<docx, tmp_md, out_docx, legacyVars, promoterVars, txt_file, batchVars, backupVars>>

\* convert_to_txt.rs convert_from_docx: the temporary Markdown of one .docx
TxtFromDocx ==
    /\ pc \in {"docx_given", "md_written", "docx_written"}
    /\ ~tmp_md.exists
    /\ tmp_md' = File(txt_convert_docx_to_markdown(docx))
    /\ UNCHANGED <<pc, docx, md_file, out_docx, legacyVars, promoterVars, txt_file, batchVars, backupVars>>

\* convert_to_txt.rs convert_from_docx, lines 143-145: convert_md_file turns
\* the temporary Markdown into the text file, and the temporary directory is
\* dropped on return
TxtFromTmp ==
    /\ tmp_md.exists
    /\ ~txt_file.exists
    /\ txt_file' = File(clean_markdown_text(tmp_md.content))
    /\ tmp_md' = NoFile
    /\ UNCHANGED <<pc, docx, md_file, out_docx, legacyVars, promoterVars, batchVars, backupVars>>

\* convert_to_docx.rs main: one .md converted by convert_file
DocxMain ==
    /\ pc \in {"md_written", "md_given"}
    /\ md_file.exists
    /\ out_docx' = convert_file(md_file.content)
    /\ pc' = IF pc = "md_written" THEN "docx_written" ELSE "md_converted"
    /\ UNCHANGED <<docx, md_file, tmp_md, legacyVars, promoterVars, txt_file, batchVars, backupVars>>

\* a structured document in Templates_docx, nothing converted yet
InitDocx ==
    /\ pc = "docx_given"
    /\ docx \in Docs
    /\ md_file = NoFile /\ tmp_md = NoFile /\ out_docx = <<>>
    /\ LegacyIdle /\ PromoterIdle /\ BatchIdle /\ BackupIdle

\* a Markdown file in Templates_markdown, nothing converted yet
InitMd ==
    /\ pc = "md_given"
    /\ docx = <<>>
    /\ md_file \in {File(c) : c \in MdSources}
    /\ tmp_md = NoFile /\ out_docx = <<>>
    /\ LegacyIdle /\ PromoterIdle /\ BatchIdle /\ BackupIdle

NextDocx == MdMain \/ TxtFromDocx \/ TxtFromTmp \/ DocxMain
NextMd == DocxMain

SpecDocx == InitDocx /\ [][NextDocx]_vars
SpecMd == InitMd /\ [][NextMd]_vars

(***************************************************************************)
(* Claims about the Markdown emphasis codec                                *)
(***************************************************************************)
\* the characters of a read paragraph, each with the flags of its run
CharFlagsIn(p) ==
    LET rs == TextRuns(p)
    IN Concat([k \in 1..Len(rs) |->
            [j \in 1..Len(rs[k].text) |->
                <<rs[k].text[j], bold_is_on(rs[k].bold), italics_is_on(rs[k].italics)>>]])

\* the characters of a written paragraph, each with the flags of its run
CharFlagsOut(op) ==
    Concat([k \in 1..Len(op.runs) |->
        [j \in 1..Len(op.runs[k].text) |->
            <<op.runs[k].text[j], op.runs[k].bold, op.runs[k].italic>>]])

OutText(op) == Concat([k \in 1..Len(op.runs) |-> op.runs[k].text])

\* C1: round trip.  A structured document whose run texts hold no '*', '_',
\* '#', encoded to Markdown and decoded by convert_file, comes back with,
\* paragraph by paragraph, the same text carrying the same bold and italic
\* flags (compared character by character, so that a run split or merged
\* without a change of flags still counts as the same).
C1_RoundTrip ==
    pc = "docx_written" =>
        \A k \in 1..Len(docx) :
            TextRuns(docx[k]) # <<>> =>
                /\ k <= Len(out_docx)
                /\ CharFlagsOut(out_docx[k]) = CharFlagsIn(docx[k])

\* C2: blank paragraphs never disappear.  After the round trip the document
\* has as many paragraphs as before, and every paragraph without text is an
\* empty paragraph at the same position.
C2_BlankParagraphsKept ==
    pc = "docx_written" =>
        /\ Len(out_docx) = Len(docx)
        /\ \A k \in 1..Len(docx) :
              ParagraphText(docx[k]) = <<>> => OutText(out_docx[k]) = <<>>

NonBlankIdx(ls) == {k \in 1..Len(ls) : \E j \in 1..Len(ls[k]) : ls[k][j] \notin Whitespace}
MinOf(S) == CHOOSE x \in S : \A y \in S : x <= y
MaxOf(S) == CHOOSE x \in S : \A y \in S : x >= y
HasNoMarker(l) == \A j \in 1..Len(l) : l[j] \notin {"*", "_"}
SourceLines == lines(md_file.content)

\* the runs of a written paragraph that carry text
TextRunsOut(op) == {k \in 1..Len(op.runs) : op.runs[k].text # <<>>}

\* C3: first/last-line policy.  For a Markdown source with at least two
\* non-blank lines, the paragraph of the first non-blank line is centered,
\* 10 pt (20 half-points) and not forced italic; the paragraph of the last
\* non-blank line is centered, every run italic, 8 pt; every other paragraph
\* is justified, 10 pt and not forced italic (a line without markers has no
\* italic run).
C3_FirstLastPolicy ==
    (pc = "md_converted" /\ Cardinality(NonBlankIdx(SourceLines)) >= 2) =>
        LET ls == SourceLines
            first == MinOf(NonBlankIdx(ls))
            last == MaxOf(NonBlankIdx(ls))
        IN /\ Len(out_docx) = Len(ls)
           /\ \A idx \in 1..Len(ls) :
                LET op == out_docx[idx]
                IN IF idx = last
                   THEN /\ op.align = "Center"
                        /\ \A k \in TextRunsOut(op) :
                              op.runs[k].italic /\ op.runs[k].size = (10 - 2) * 2
                   ELSE /\ op.align = (IF idx = first THEN "Center" ELSE "Justify")
                        /\ \A k \in TextRunsOut(op) :
                              /\ op.runs[k].size = 10 * 2
                              /\ HasNoMarker(ls[idx]) => ~op.runs[k].italic

\* C3 witness: three lines, a marker-free first, an interior, and a last
\* line whose runs came out italic at 8 pt
C3_Witness ==
    /\ pc = "md_converted"
    /\ Len(SourceLines) = 3
    /\ NonBlankIdx(SourceLines) = {1, 2, 3}
    /\ HasNoMarker(SourceLines[3])
    /\ out_docx[1].align = "Center" /\ out_docx[2].align = "Justify"
    /\ out_docx[3].align = "Center"
    /\ out_docx[3].runs # <<>> /\ out_docx[3].runs[1].italic
    /\ out_docx[3].runs[1].size = 16

FirstNonSpace(l) ==
    IF NonBlankIdx(<<l>>) = {} THEN ""
    ELSE l[MinOf({j \in 1..Len(l) : l[j] \notin Whitespace})]

RECURSIVE DropLeading(_, _)
DropLeading(l, S) == IF l # <<>> /\ Head(l) \in S THEN DropLeading(Tail(l), S) ELSE l

RECURSIVE DropTrailing(_, _)
DropTrailing(l, S) ==
    IF l # <<>> /\ l[Len(l)] \in S THEN DropTrailing(SubSeq(l, 1, Len(l) - 1), S) ELSE l

\* the line after heading-marker stripping
HeadingStripped(l) ==
    IF FirstNonSpace(l) = "#"
    THEN DropTrailing(DropLeading(DropLeading(DropLeading(l, Whitespace), {"#"}),
                                  Whitespace), Whitespace)
    ELSE l

WithoutMarkers(l) == SelectSeq(l, LAMBDA c : c \notin {"*", "_"})

BoldLine == <<"*", "*", "b", "o", "l", "d">>

\* C4: unmatched markers never lose content.  For every Markdown line the
\* texts of the runs emitted, concatenated, are the line (after heading-
\* marker stripping) without its '*' and '_'; and "**bold" yields exactly one
\* run, of text "bold" and bold.
C4_NoContentLost ==
    pc = "md_converted" =>
        LET ls == SourceLines
        IN /\ ls # <<>> => Len(out_docx) = Len(ls)
           /\ \A idx \in 1..Len(ls) :
                /\ OutText(out_docx[idx]) = WithoutMarkers(HeadingStripped(ls[idx]))
                /\ ls[idx] = BoldLine =>
                      /\ Len(out_docx[idx].runs) = 1
                      /\ out_docx[idx].runs[1].text = <<"b", "o", "l", "d">>
                      /\ out_docx[idx].runs[1].bold

\* C4 witness: the line "**bold", dangling opening marker and all, has been
\* decoded to its one run
C4_Witness ==
    /\ pc = "md_converted"
    /\ SourceLines = <<BoldLine>>
    /\ out_docx = <<OutPara("Center", <<OutRun(<<"b", "o", "l", "d">>, TRUE, TRUE, 16)>>)>>

\* C5: heading promotion.  For every line whose first non-space character is
\* '#', every run emitted for the line is bold, whatever markers follow.
C5_HeadingBold ==
    pc = "md_converted" =>
        \A idx \in 1..Len(SourceLines) :
            FirstNonSpace(SourceLines[idx]) = "#" =>
                \A k \in TextRunsOut(out_docx[idx]) : out_docx[idx].runs[k].bold

\* the attribute is present and not explicitly disabled
AttrOn(a) == a \notin {"absent", "false", "none"}

ClaimWrapRun(run) ==
    LET t1 == IF AttrOn(run.bold) THEN Stars2 \o run.text \o Stars2 ELSE run.text
        t2 == IF AttrOn(run.italics) THEN Star1 \o t1 \o Star1 ELSE t1
    IN IF AttrOn(run.underline) THEN Under2 \o t2 \o Under2 ELSE t2

ClaimLine(p) ==
    LET rs == TextRuns(p)
    IN Concat([k \in 1..Len(rs) |-> ClaimWrapRun(rs[k])])

\* C6: reading run flags.  In both encoding paths (convert_to_markdown and
\* the detour of convert_to_txt) a run is wrapped with a marker exactly when
\* the attribute is present and not explicitly disabled, so the two paths
\* give the same Markdown for the same document.
C6_SameMarkdown ==
    /\ md_file.exists /\ pc # "md_given" =>
          md_file.content = JoinNL([k \in 1..Len(docx) |-> ClaimLine(docx[k])])
    /\ tmp_md.exists =>
          tmp_md.content = JoinNL([k \in 1..Len(docx) |-> ClaimLine(docx[k])])
    /\ md_file.exists /\ tmp_md.exists => md_file.content = tmp_md.content

\* C11: the text file of a structured document (whose run texts hold none
\* of '*', '_', '#') has one line per paragraph, equal to the concatenation
\* of the paragraph's run texts, and holds no emphasis marker.
C11_NoMarkup ==
    txt_file.exists =>
        /\ txt_file.content = JoinNL([k \in 1..Len(docx) |-> ParagraphText(docx[k])])
        /\ \A k \in 1..Len(txt_file.content) : txt_file.content[k] \notin {"*", "_"}

(***************************************************************************)
(* convert_to_markdown.rs: convert_rtf_to_markdown                         *)
(***************************************************************************)
RECURSIVE Span(_, _, _)
\* the last index of the run of characters of S that starts at i (i - 1 when
\* s[i] is not in S): how far a greedy S* reaches
Span(s, i, S) == IF i <= Len(s) /\ s[i] \in S THEN Span(s, i + 1, S) ELSE i - 1

RECURSIVE SpanNot(_, _, _)
\* the same for the characters outside S
SpanNot(s, i, S) ==
    IF i <= Len(s) /\ s[i] \notin S THEN SpanNot(s, i + 1, S) ELSE i - 1

RECURSIVE SpanBack(_, _, _)
\* the first index of the run of characters of S that ends at i (i + 1 when
\* s[i] is not in S)
SpanBack(s, i, S) == IF i >= 1 /\ s[i] \in S THEN SpanBack(s, i - 1, S) ELSE i + 1

Braces == {"{", "}"}
NumChars == Digits \cup {"-"}
ControlChars == {"\t", NL, "\r"}

RECURSIVE RemoveGroupsFrom(_, _)
\* re_group.replace_all(text, ""), re_group = \{[^{}]*\}, from index i
RemoveGroupsFrom(s, i) ==
    IF i > Len(s) THEN <<>>
    ELSE IF s[i] = "{"
    THEN LET j == SpanNot(s, i + 1, Braces) + 1
         IN IF j <= Len(s) /\ s[j] = "}"
            THEN RemoveGroupsFrom(s, j + 1)
            ELSE <<s[i]>> \o RemoveGroupsFrom(s, i + 1)
    ELSE <<s[i]>> \o RemoveGroupsFrom(s, i + 1)

RemoveGroupsOnce(s) == RemoveGroupsFrom(s, 1)

\* the loop condition of the brace-group loop (line 102)
HasBothBraces(s) ==
    (\E i \in 1..Len(s) : s[i] = "{") /\ (\E i \in 1..Len(s) : s[i] = "}")

RECURSIVE RemoveCmdFrom(_, _)
\* re_cmd.replace_all(text, " "), re_cmd = \\[a-zA-Z]+\d*\s*
RemoveCmdFrom(s, i) ==
    IF i > Len(s) THEN <<>>
    ELSE LET a == Span(s, i + 1, AsciiLetters)
             b == Span(s, a + 1, Digits)
             c == Span(s, b + 1, Whitespace)
         IN IF s[i] = "\\" /\ a >= i + 1
            THEN <<" ">> \o RemoveCmdFrom(s, c + 1)
            ELSE <<s[i]>> \o RemoveCmdFrom(s, i + 1)

RECURSIVE RemoveBraceEscFrom(_, _)
\* re_brace_cmd.replace_all(text, ""), re_brace_cmd = \\[{}]
RemoveBraceEscFrom(s, i) ==
    IF i > Len(s) THEN <<>>
    ELSE IF s[i] = "\\" /\ i + 1 <= Len(s) /\ s[i + 1] \in Braces
    THEN RemoveBraceEscFrom(s, i + 2)
    ELSE <<s[i]>> \o RemoveBraceEscFrom(s, i + 1)

RECURSIVE RemoveHexFrom(_, _)
\* re_hex.replace_all(text, ""), re_hex = \\'[0-9a-fA-F]{2}
RemoveHexFrom(s, i) ==
    IF i > Len(s) THEN <<>>
    ELSE IF /\ s[i] = "\\" /\ i + 3 <= Len(s) /\ s[i + 1] = "'"
            /\ s[i + 2] \in HexDigits /\ s[i + 3] \in HexDigits
    THEN RemoveHexFrom(s, i + 4)
    ELSE <<s[i]>> \o RemoveHexFrom(s, i + 1)

RECURSIVE RemoveNumsFrom(_, _)
\* re_nums.replace_all(text, " "), re_nums = \s+\d+\s+
RemoveNumsFrom(s, i) ==
    IF i > Len(s) THEN <<>>
    ELSE LET a == Span(s, i, Whitespace)
             b == Span(s, a + 1, Digits)
             c == Span(s, b + 1, Whitespace)
         IN IF a >= i /\ b >= a + 1 /\ c >= b + 1
            THEN <<" ">> \o RemoveNumsFrom(s, c + 1)
            ELSE <<s[i]>> \o RemoveNumsFrom(s, i + 1)

\* lines 111-125: control words, brace escapes, hex escapes, loose numbers
RemoveControl(s) ==
    RemoveNumsFrom(RemoveHexFrom(RemoveBraceEscFrom(RemoveCmdFrom(s, 1), 1), 1), 1)

\* lines 130-138: trim, remove the control characters, trim
StripLine(raw_line) ==
    trim(SelectSeq(trim(raw_line), LAMBDA c : c \notin ControlChars))

FontNames ==
    {<<"t", "i", "m", "e", "s", " ", "n", "e", "w", " ", "r", "o", "m", "a", "n">>,
     <<"a", "r", "i", "a", "l">>,
     <<"c", "a", "l", "i", "b", "r", "i">>,
     <<"h", "e", "l", "v", "e", "t", "i", "c", "a">>,
     <<"t", "r", "e", "b", "u", "c", "h", "e", "t", " ", "m", "s">>,
     <<"c", "a", "m", "b", "r", "i", "a">>,
     <<"t", "i", "m", "e", "s">>}

\* re_only_words = ^[a-z\s]+\}?$
re_only_words(s) ==
    LET body == IF s # <<>> /\ s[Len(s)] = "}" THEN SubSeq(s, 1, Len(s) - 1) ELSE s
    IN body # <<>> /\ \A k \in 1..Len(body) : body[k] \in LowerAscii \cup Whitespace

\* re_only_nums = ^[\d\s\-]+$
re_only_nums(s) ==
    s # <<>> /\ \A k \in 1..Len(s) : s[k] \in NumChars \cup Whitespace

CountOf(s, c) == Cardinality({k \in 1..Len(s) : s[k] = c})

\* lines 145-170: whether the noise filter drops the (non-empty) line
IsNoise(line) ==
    LET lower == to_lowercase(line)
        is_font_name == lower \in FontNames
    IN \/ is_font_name
       \/ re_only_words(lower)
       \/ re_only_nums(line)
       \/ CountOf(line, "}") > CountOf(line, " ")
       \/ (ByteLen(line) < 3 /\ ~(\A k \in 1..Len(line) : is_alphanumeric(line[k])))

RECURSIVE CollapseSpacesFrom(_, _)
\* re_spaces.replace_all(line, " "), re_spaces = \s+
CollapseSpacesFrom(s, i) ==
    IF i > Len(s) THEN <<>>
    ELSE IF s[i] \in Whitespace
    THEN <<" ">> \o CollapseSpacesFrom(s, Span(s, i, Whitespace) + 1)
    ELSE <<s[i]>> \o CollapseSpacesFrom(s, i + 1)

\* re_stray_words_start = ^[a-zA-Z]+\s+[a-zA-Z]+\s+, replaced by ""
StripStrayWords(s) ==
    LET a == Span(s, 1, AsciiLetters)
        b == Span(s, a + 1, Whitespace)
        c == Span(s, b + 1, AsciiLetters)
        d == Span(s, c + 1, Whitespace)
    IN IF a >= 1 /\ b >= a + 1 /\ c >= b + 1 /\ d >= c + 1
       THEN SubSeq(s, d + 1, Len(s)) ELSE s

\* re_brace_end = \s*\}\s*$, replaced by ""
StripBraceEnd(s) ==
    LET t == trim_end(s)
    IN IF t # <<>> /\ t[Len(t)] = "}" THEN trim_end(SubSeq(t, 1, Len(t) - 1)) ELSE s

\* re_brace_start = ^\s*\{\s*, replaced by ""
StripBraceStart(s) ==
    LET t == trim_start(s)
    IN IF t # <<>> /\ Head(t) = "{" THEN trim_start(Tail(t)) ELSE s

\* re_nums_start = ^\s*[\d\-]+\s+, replaced by ""
StripNumsStart(s) ==
    LET a == Span(s, 1, Whitespace)
        b == Span(s, a + 1, NumChars)
        c == Span(s, b + 1, Whitespace)
    IN IF b >= a + 1 /\ c >= b + 1 THEN SubSeq(s, c + 1, Len(s)) ELSE s

\* re_nums_end = \s+[\d\-]+\s*$, replaced by ""
StripNumsEnd(s) ==
    LET t == trim_end(s)
        k == SpanBack(t, Len(t), NumChars)
        j == SpanBack(t, k - 1, Whitespace)
    IN IF k <= Len(t) /\ j <= k - 1 THEN SubSeq(t, 1, j - 1) ELSE s

\* lines 172-189: the additional cleanup of a surviving line
TidyLine(line) ==
    StripNumsEnd(StripNumsStart(StripBraceStart(StripBraceEnd(
        StripStrayWords(CollapseSpacesFrom(line, 1))))))

RECURSIVE CleanLines(_)
\* lines 127-194: the cleaned lines of the (split) text
CleanLines(raw) ==
    IF raw = <<>> THEN <<>>
    ELSE LET line == StripLine(Head(raw))
             rest == CleanLines(Tail(raw))
         IN IF line = <<>> THEN <<<<>>>> \o rest
            ELSE IF IsNoise(line) THEN rest
            ELSE IF trim(TidyLine(line)) # <<>> THEN <<trim(TidyLine(line))>> \o rest
            ELSE rest

\* the lines the noise filter dropped (lines 162-170)
NoiseLines(raw) ==
    SelectSeq([k \in 1..Len(raw) |-> StripLine(raw[k])],
              LAMBDA l : l # <<>> /\ IsNoise(l))

HEADING_MIN_LEN == 15
HEADING_MAX_LEN == 120
SECTION_MIN_LEN == 10

ModalityKeywords == {<<"T", "O", "M", "O", "G", "R", "A", "F", "I", "A">>,
     <<"A", "N", "G", "I", "O">>,
     <<"C", "O", "M", "P", "U", "T", "A", "D", "O", "R", "I", "Z", "A", "D", "A">>}
SectionKeywords ==
    {<<"i", "n", "d", "i", "c", "a", "c,", "a~", "o", " ", "c", "l", "i'", "n", "i", "c", "a">>,
     <<"t", "e'", "c", "n", "i", "c", "a", " ", "d", "o", " ", "e", "x", "a", "m", "e">>,
     <<"a", "s", "p", "e", "c", "t", "o", "s", " ", "o", "b", "s", "e", "r", "v", "a", "d", "o", "s">>,
     <<"i", "m", "p", "r", "e", "s", "s", "a~", "o">>}
StartKeywords == {<<"i", "n", "d", "i", "c", "a", "c,", "a~", "o">>,
     <<"t", "e'", "c", "n", "i", "c", "a">>,
     <<"a", "s", "p", "e", "c", "t", "o", "s">>,
     <<"i", "m", "p", "r", "e", "s", "s", "a~", "o">>}
CaveatKeywords == {<<"p", "r", "o", "b", "a", "b", "i", "l", "i", "d", "a", "d", "e">>,
     <<"m", "e'", "d", "i", "c", "o">>,
     <<"d", "i", "a", "g", "n", "o'", "s", "t", "i", "c", "a">>}

H2 == <<"#", "#", " ">>

\* mutant of ClassifyLine: the caveat rule is tried before the section rule
ClassifyLine_CaveatFirst(line) ==
    LET upper == to_uppercase(line)
        lower == to_lowercase(line)
    IN IF line = <<>> THEN <<>>
       ELSE IF /\ upper = line
               /\ ByteLen(line) > HEADING_MIN_LEN
               /\ ByteLen(line) < HEADING_MAX_LEN
               /\ ~ends_with(line, <<".">>)
               /\ \E k \in ModalityKeywords : contains(upper, k)
       THEN H2 \o line
       ELSE IF \E k \in CaveatKeywords : contains(lower, k)
       THEN Star1 \o line \o Star1
       ELSE IF \E k \in SectionKeywords : contains(lower, k)
       THEN IF upper = line /\ ByteLen(line) > SECTION_MIN_LEN
            THEN H2 \o line
            ELSE IF \E k \in StartKeywords : starts_with(lower, k)
            THEN Stars2 \o line \o Stars2
            ELSE line
       ELSE line

\* lines 199-258: the Markdown line of one cleaned line
ClassifyLine(line) ==
    LET upper == to_uppercase(line)
        lower == to_lowercase(line)
    IN IF line = <<>> THEN <<>>
       ELSE IF /\ upper = line
               /\ ByteLen(line) > HEADING_MIN_LEN
               /\ ByteLen(line) < HEADING_MAX_LEN
               /\ ~ends_with(line, <<".">>)
               /\ \E k \in ModalityKeywords : contains(upper, k)
       THEN H2 \o line
       ELSE IF \E k \in SectionKeywords : contains(lower, k)
       THEN IF upper = line /\ ByteLen(line) > SECTION_MIN_LEN
            THEN H2 \o line
            ELSE IF \E k \in StartKeywords : starts_with(lower, k)
            THEN Stars2 \o line \o Stars2
            ELSE line
       ELSE IF \E k \in CaveatKeywords : contains(lower, k)
       THEN Star1 \o line \o Star1
       ELSE line

\* mutant of CollapseBlank: the blank lines are removed altogether
CollapseBlank_NoBlank(ls, prev_empty) == SelectSeq(ls, LAMBDA l : trim(l) # <<>>)

RECURSIVE CollapseBlank(_, _)
\* lines 261-274: drop a blank line that follows a blank line
CollapseBlank(ls, prev_empty) ==
    IF ls = <<>> THEN <<>>
    ELSE IF trim(Head(ls)) = <<>>
    THEN IF prev_empty THEN CollapseBlank(Tail(ls), TRUE)
         ELSE <<<<>>>> \o CollapseBlank(Tail(ls), TRUE)
    ELSE <<Head(ls)>> \o CollapseBlank(Tail(ls), FALSE)

RECURSIVE GroupLoop(_)
\* lines 102-109: the brace-group loop, run to its end
GroupLoop(s) ==
    IF HasBothBraces(s) /\ RemoveGroupsOnce(s) # s
    THEN GroupLoop(RemoveGroupsOnce(s)) ELSE s

\* lines 98-194: the cleaned lines of a text
Cleanup(text) == CleanLines(lines(RemoveControl(GroupLoop(text))))

(***************************************************************************)
(* Bounds and inputs of the legacy specifications                          *)
(***************************************************************************)
MaxTokens == 4      \* tokens of a legacy text built from RtfTokens
MaxWords == 3       \* words of a cleaned line built from ClassWords
MaxBlank == 2       \* blank lines before and after a cleaned line

RtfTokens == {<<"a">>, <<"B">>, <<" ">>, <<"1">>, <<NL>>, <<"{">>, <<"}">>,
              <<"\\">>, <<"-">>, <<".">>, <<"'">>, <<"a", " ">>}

SampleRtf ==
    {<<"{", "\\", "r", "t", "f", "1", "\\", "a", "n", "s", "i", " ", "{", "\\", "f", "o", "n", "t", "t", "b", "l", " ", "C", "a", "l", "i", "b", "r", "i", "}", "}", NL, "I", "M", "P", "R", "E", "S", "S", "A~", "O", ":", NL, "E", "x", "a", "m", "e", " ", "n", "o", "r", "m", "a", "l", ".", NL, NL, NL, "C", "a", "l", "i", "b", "r", "i", NL, "1", "2", "3", " ", "-", " ", "4", "5", NL>>,
     <<"T", "O", "M", "O", "G", "R", "A", "F", "I", "A", " ", "C", "O", "M", "P", "U", "T", "A", "D", "O", "R", "I", "Z", "A", "D", "A", " ", "D", "O", " ", "C", "R", "A^", "N", "I", "O", NL, "N", "o", "t", "a", ":", " ", "p", "r", "o", "b", "a", "b", "i", "l", "i", "d", "a", "d", "e", " ", "d", "i", "a", "g", "n", "o'", "s", "t", "i", "c", "a", " ", "b", "a", "i", "x", "a", ".">>}

RtfInputs == {Concat(ts) : ts \in SeqUpTo(RtfTokens, MaxTokens)} \cup SampleRtf

ClassWords ==
    {<<"T", "O", "M", "O", "G", "R", "A", "F", "I", "A">>,
     <<"A", "N", "G", "I", "O">>,
     <<"D", "O">>,
     <<"I", "M", "P", "R", "E", "S", "S", "A~", "O">>,
     <<"I", "m", "p", "r", "e", "s", "s", "a~", "o", ":">>,
     <<"I", "N", "D", "I", "C", "A", "C,", "A~", "O", " ", "C", "L", "I'", "N", "I", "C", "A">>,
     <<"t", "e'", "c", "n", "i", "c", "a", " ", "d", "o", " ", "e", "x", "a", "m", "e">>,
     <<"m", "e'", "d", "i", "c", "o">>,
     <<"n", "o", "r", "m", "a", "l">>,
     <<".">>}

RECURSIVE JoinSpace(_)
JoinSpace(ws) ==
    IF ws = <<>> THEN <<>>
    ELSE IF Len(ws) = 1 THEN ws[1]
    ELSE ws[1] \o <<" ">> \o JoinSpace(Tail(ws))

ExampleHeading == <<"T", "O", "M", "O", "G", "R", "A", "F", "I", "A", " ", "C", "O", "M", "P", "U", "T", "A", "D", "O", "R", "I", "Z", "A", "D", "A", " ", "D", "O", " ", "C", "R", "A", "N", "I", "O">>

\* all-capital lines around the length limits of the heading rules
BoundaryLines ==
    {Repeat(<<"A">>, k) \o <<" ", "A", "N", "G", "I", "O">> :
        k \in {HEADING_MIN_LEN - 6, HEADING_MIN_LEN - 5,
               HEADING_MAX_LEN - 7, HEADING_MAX_LEN - 6}}
    \cup {<<"I", "M", "P", "R", "E", "S", "S", "A~", "O", ":">>,
          <<"I", "M", "P", "R", "E", "S", "S", "A", "O", ":">>,
          <<"I", "M", "P", "R", "E", "S", "S", "A~", "O">>}

ClassLines ==
    {JoinSpace(ws) : ws \in SeqUpTo(ClassWords, MaxWords) \ {<<>>}}
    \cup BoundaryLines \cup {ExampleHeading}

Blanks(n) == [k \in 1..n |-> <<>>]

CleanedInputs ==
    {<<l>> : l \in ClassLines}
    \cup {Blanks(pb) \o <<l>> \o Blanks(pa) \o tail :
            pb \in 0..MaxBlank, pa \in 0..MaxBlank,
            l \in {ExampleHeading, <<"n", "o", "r", "m", "a", "l">>},
            tail \in {<<>>, <<<<"m", "e'", "d", "i", "c", "o">>>>}}

(***************************************************************************)
(* Operations of convert_rtf_to_markdown                                   *)
(***************************************************************************)
CodecIdle ==
    docx = <<>> /\ md_file = NoFile /\ tmp_md = NoFile /\ out_docx = <<>>

\* lines 102-108: a pass of the brace-group loop that changes the text
StripGroupsPass ==
    /\ pc = "groups"
    /\ HasBothBraces(rtf_text)
    /\ RemoveGroupsOnce(rtf_text) # rtf_text
    /\ rtf_text' = RemoveGroupsOnce(rtf_text)
    /\ passes' = passes + 1
    /\ UNCHANGED <<pc, dropped, cleaned_lines, markdown_lines, result,
                   codecVars, promoterVars, txt_file, batchVars, backupVars>>

\* mutant of StripGroupsExit: the loop is left after its first pass (an 'if'
\* in place of the 'while')
StripGroupsExit_OnePass ==
    /\ pc = "groups"
    /\ passes >= 1 \/ ~(HasBothBraces(rtf_text) /\ RemoveGroupsOnce(rtf_text) # rtf_text)
    /\ pc' = "control"
    /\ UNCHANGED <<rtf_text, passes, dropped, cleaned_lines, markdown_lines, result,
                   codecVars, promoterVars, txt_file, batchVars, backupVars>>

\* lines 102-107: the loop ends, its condition false or after a no-op pass
StripGroupsExit ==
    /\ pc = "groups"
    /\ ~(HasBothBraces(rtf_text) /\ RemoveGroupsOnce(rtf_text) # rtf_text)
    /\ passes' = IF HasBothBraces(rtf_text) THEN passes + 1 ELSE passes
    /\ pc' = "control"
    /\ UNCHANGED <<rtf_text, dropped, cleaned_lines, markdown_lines, result,
                   codecVars, promoterVars, txt_file, batchVars, backupVars>>

\* lines 111-125
StripControl ==
    /\ pc = "control"
    /\ rtf_text' = RemoveControl(rtf_text)
    /\ pc' = "lines"
    /\ UNCHANGED <<passes, dropped, cleaned_lines, markdown_lines, result,
                   codecVars, promoterVars, txt_file, batchVars, backupVars>>

\* lines 127-194
CleanStep ==
    /\ pc = "lines"
    /\ cleaned_lines' = CleanLines(lines(rtf_text))
    /\ dropped' = NoiseLines(lines(rtf_text))
    /\ pc' = "classify"
    /\ UNCHANGED <<rtf_text, passes, markdown_lines, result, codecVars, promoterVars, txt_file, batchVars, backupVars>>

\* lines 196-259
Classify ==
    /\ pc = "classify"
    /\ markdown_lines' = [k \in 1..Len(cleaned_lines) |-> ClassifyLine(cleaned_lines[k])]
    /\ pc' = "collapse"
    /\ UNCHANGED <<rtf_text, passes, dropped, cleaned_lines, result,
                   codecVars, promoterVars, txt_file, batchVars, backupVars>>

\* lines 261-276
Collapse ==
    /\ pc = "collapse"
    /\ result' = CollapseBlank(markdown_lines, FALSE)
    /\ pc' = "converted"
    /\ UNCHANGED <<rtf_text, passes, dropped, cleaned_lines, markdown_lines,
                   codecVars, promoterVars, txt_file, batchVars, backupVars>>

\* convert_to_markdown.rs main, lines 331-340: the Markdown is written
RtfMain ==
    /\ pc = "converted"
    /\ md_file' = File(JoinNL(result))
    /\ pc' = "rtf_written"
    /\ UNCHANGED <<docx, tmp_md, out_docx, legacyVars, promoterVars, txt_file, batchVars, backupVars>>

\* a legacy document has been read (lines 96-98)
InitLegacy ==
    /\ pc = "groups"
    /\ rtf_text \in RtfInputs
    /\ passes = 0 /\ dropped = <<>> /\ cleaned_lines = <<>>
    /\ markdown_lines = <<>> /\ result = <<>>
    /\ CodecIdle /\ PromoterIdle /\ BatchIdle /\ BackupIdle

\* the classification is about to run on cleaned lines (line 196); the
\* lines drawn include lines the noise filter would have dropped
InitClassify ==
    /\ pc = "classify"
    /\ rtf_text = <<>> /\ passes = 0 /\ dropped = <<>>
    /\ cleaned_lines \in CleanedInputs
    /\ markdown_lines = <<>> /\ result = <<>>
    /\ CodecIdle /\ PromoterIdle /\ BatchIdle /\ BackupIdle

NextLegacy ==
    \/ StripGroupsPass \/ StripGroupsExit \/ StripControl \/ CleanStep
    \/ Classify \/ Collapse \/ RtfMain
NextClassify == Classify \/ Collapse \/ RtfMain

SpecLegacy == InitLegacy /\ [][NextLegacy]_vars
SpecClassify == InitClassify /\ [][NextClassify]_vars

MaxBraceLen == 6    \* characters of a text built from BraceChars

BraceChars == {"{", "}", "a"}
BraceTexts == SeqUpTo(BraceChars, MaxBraceLen)

\* a legacy document has been read (lines 96-98): texts of braces, balanced
\* or not, nested up to MaxBraceLen \div 2 deep
InitGroups ==
    /\ pc = "groups"
    /\ rtf_text \in BraceTexts
    /\ passes = 0 /\ dropped = <<>> /\ cleaned_lines = <<>>
    /\ markdown_lines = <<>> /\ result = <<>>
    /\ CodecIdle /\ PromoterIdle /\ BatchIdle /\ BackupIdle

NextGroups == StripGroupsPass \/ StripGroupsExit

\* the brace-group loop (lines 102-109) runs sequentially: a step that can
\* be taken is taken
SpecGroups == InitGroups /\ [][NextGroups]_vars /\ WF_vars(NextGroups)

(***************************************************************************)
(* Claims about the legacy cleanup and classification                      *)
(***************************************************************************)
\* the text whose lines are ls, each ended by a line feed
TextOfLines(ls) == Concat([k \in 1..Len(ls) |-> ls[k] \o <<NL>>])

\* C7: idempotence of the legacy cleanup.  The cleanup pipeline (brace
\* groups, control words, escapes, loose numbers, noise filter, per-line
\* stripping), applied to the lines it produced, yields the same lines.
C7_CleanupIdempotent ==
    pc \in {"classify", "collapse", "converted", "rtf_written"} =>
        Cleanup(TextOfLines(cleaned_lines)) = cleaned_lines

CharsIn(s, S) == \A k \in 1..Len(s) : s[k] \in S
Range(f) == {f[k] : k \in DOMAIN f}

\* the five conditions of the noise filter, in the claim's words
ClaimNoise(t) ==
    \/ to_lowercase(t) \in FontNames
    \/ LET body == IF t[Len(t)] = "}" THEN SubSeq(t, 1, Len(t) - 1) ELSE t
       IN body # <<>> /\ CharsIn(body, LowerAscii \cup {" "})
    \/ CharsIn(t, Digits \cup {" ", "-"})
    \/ CountOf(t, "}") > CountOf(t, " ")
    \/ CharLen(t) < 3 /\ ~CharsIn(t, {c \in Range(t) : is_alphanumeric(c)})

\* C8: noise filtering.  A non-empty trimmed line is dropped exactly when it
\* is a font name (any case), or only lowercase letters and spaces with at
\* most one trailing '}', or only digits, spaces and hyphens, or has more '}'
\* than spaces, or is shorter than 3 characters and not fully alphanumeric;
\* so a line with upper-case letters that meets none of the other conditions
\* is kept.
C8_NoiseFilter ==
    pc \in {"classify", "collapse", "converted", "rtf_written"} =>
        \A k \in 1..Len(lines(rtf_text)) :
            LET t == StripLine(lines(rtf_text)[k])
            IN t # <<>> => ((t \in Range(dropped)) <=> ClaimNoise(t))

\* the line has no character with a different upper-case form
AllUpperCase(l) == \A k \in 1..Len(l) : l[k] \notin LowerAscii \cup LowerWide

ContainsAny(l, K) == \E k \in K : contains(l, k)

\* the classification in the claim's words; a length is the length of the
\* line as the program measures it, str::len, the UTF-8 bytes
ClaimClassify(l) ==
    CASE l = <<>> -> <<>>
      [] l # <<>> /\ AllUpperCase(l) /\ 15 < ByteLen(l) /\ ByteLen(l) < 120
           /\ l[Len(l)] # "." /\ ContainsAny(l, ModalityKeywords) -> H2 \o l
      [] OTHER ->
           IF ContainsAny(to_lowercase(l), SectionKeywords)
           THEN IF AllUpperCase(l) /\ ByteLen(l) > 10 THEN H2 \o l
                ELSE IF \E k \in StartKeywords :
                            SubSeq(to_lowercase(l), 1, Len(k)) = k
                THEN Stars2 \o l \o Stars2
                ELSE l
           ELSE IF ContainsAny(to_lowercase(l), CaveatKeywords)
           THEN Star1 \o l \o Star1
           ELSE l

HasInnerGroup(s) ==
    \E i \in 1..Len(s) : \E j \in (i + 1)..Len(s) :
        /\ s[i] = "{"
        /\ s[j] = "}"
        /\ \A k \in (i + 1)..(j - 1) : s[k] \notin {"{", "}"}

\* C14: the brace-group loop ends; a pass that changes the text shortens
\* it and a pass that changes nothing ends the loop; after the loop the text
\* holds no '{' followed, with no brace in between, by '}'.
C14_GroupLoopFixedPoint ==
    /\ [][pc = "groups" =>
            /\ rtf_text' # rtf_text => Len(rtf_text') < Len(rtf_text) /\ pc' = "groups"
            /\ rtf_text' = rtf_text => pc' = "control"]_vars
    /\ [](pc = "control" => ~HasInnerGroup(rtf_text))
    /\ <>(pc # "groups")

\* C14 witness: on a text with unmatched braces the loop made a pass that
\* changed nothing and ended with both kinds of brace still in the text
C14_Witness ==
    /\ pc = "control"
    /\ passes >= 1
    /\ HasBothBraces(rtf_text)

\* the lines of ls that are not a blank line following a blank line
FirstOfRuns(ls) ==
    LET kept == SelectSeq([k \in 1..Len(ls) |-> k],
                          LAMBDA k : ls[k] # <<>> \/ k = 1 \/ ls[k - 1] # <<>>)
    IN [n \in 1..Len(kept) |-> ls[kept[n]]]

SECTION_PREFIXES ==
    {<<"t", "e'", "c", "n", "i", "c", "a", " ", "d", "o", " ", "e", "x", "a", "m", "e", ":">>,
     <<"a", "s", "p", "e", "c", "t", "o", "s", " ", "o", "b", "s", "e", "r", "v", "a", "d", "o", "s", ":">>,
     <<"i", "m", "p", "r", "e", "s", "s", "a~", "o", ":">>,
     <<"i", "n", "f", "o", "r", "m", "e", " ", "c", "l", "i'", "n", "i", "c", "o", ":">>,
     <<"i", "n", "d", "i", "c", "a", "c,", "a~", "o", " ", "c", "l", "i'", "n", "i", "c", "a", ":">>,
     <<"i", "n", "d", "i", "c", "a", "c,", "a~", "o", ":">>}

BOLD_MAX_LEN == 120

\* find_first_last_nonempty: <<first, last>>, or <<0, 0>> for None (the
\* caller's usize::MAX, an index no line has)
find_first_last_nonempty(ls) ==
    LET nonempty_indices == {k \in 1..Len(ls) : trim(ls[k]) # <<>>}
    IN IF nonempty_indices = {} THEN <<0, 0>>
       ELSE <<CHOOSE k \in nonempty_indices : \A j \in nonempty_indices : k <= j,
              CHOOSE k \in nonempty_indices : \A j \in nonempty_indices : k >= j>>

\* should_bold_section
should_bold_section(line) ==
    LET lowered == to_lowercase(line)
        trimmed == trim(lowered)
    IN IF \E prefix \in SECTION_PREFIXES : starts_with(trimmed, prefix) THEN TRUE
       ELSE IF ends_with(trimmed, <<":">>) /\ ByteLen(trimmed) <= BOLD_MAX_LEN THEN TRUE
       ELSE FALSE

\* mutant of FormatLine: the bold test comes before the last-line test
FormatLine_BoldFirst(ls, idx) ==
    LET fl == find_first_last_nonempty(ls)
        stripped == trim(ls[idx])
    IN IF stripped = <<>> THEN <<>>
       ELSE IF idx = fl[1] \/ should_bold_section(stripped)
       THEN Stars2 \o stripped \o Stars2
       ELSE IF idx = fl[2] THEN Star1 \o stripped \o Star1
       ELSE stripped

\* format_lines_as_markdown, the loop body (lines 53-71)
FormatLine(ls, idx) ==
    LET fl == find_first_last_nonempty(ls)
        stripped == trim(ls[idx])
        is_first == idx = fl[1]
        is_last == idx = fl[2]
    IN IF stripped = <<>> THEN <<>>
       ELSE IF is_last THEN Star1 \o stripped \o Star1
       ELSE IF is_first \/ should_bold_section(stripped)
       THEN Stars2 \o stripped \o Stars2
       ELSE stripped

\* format_lines_as_markdown
format_lines_as_markdown(ls) == [idx \in 1..Len(ls) |-> FormatLine(ls, idx)]

MaxTxtLines == 3    \* lines of a text file built from TxtSampleLines

ExampleTxt ==
    <<<<>>,
      <<"R", "e", "l", "a", "t", "o'", "r", "i", "o">>,
      <<"I", "n", "d", "i", "c", "a", "c,", "a~", "o", " ", "c", "l", "i'", "n", "i", "c", "a", ":", " ", "d", "o", "r">>,
      <<"n", "o", "r", "m", "a", "l">>,
      <<"A", "s", "s", "i", "n", "a", "d", "o">>>>
ExampleMd ==
    <<<<>>,
      <<"*", "*", "R", "e", "l", "a", "t", "o'", "r", "i", "o", "*", "*">>,
      <<"*", "*", "I", "n", "d", "i", "c", "a", "c,", "a~", "o", " ", "c", "l", "i'", "n", "i", "c", "a", ":", " ", "d", "o", "r", "*", "*">>,
      <<"n", "o", "r", "m", "a", "l">>,
      <<"*", "A", "s", "s", "i", "n", "a", "d", "o", "*">>>>

TxtSampleLines ==
    {<<>>,
     <<" ">>,
     <<"L", "a", "u", "d", "o">>,
     <<" ", "n", "o", "r", "m", "a", "l", " ">>,
     <<"N", "o", "t", "a", ":">>,
     <<"I", "m", "p", "r", "e", "s", "s", "a~", "o", ":", " ", "s", "e", "m", " ", "a", "c", "h", "a", "d", "o", "s">>,
     Repeat(<<"x">>, BOLD_MAX_LEN - 1) \o <<":">>,
     Repeat(<<"x">>, BOLD_MAX_LEN) \o <<":">>,
     Repeat(<<"c,">>, BOLD_MAX_LEN \div 2) \o <<":">>}

TxtInputs == SeqUpTo(TxtSampleLines, MaxTxtLines) \cup {ExampleTxt}

\* convert_txt_file: the lines are formatted and the Markdown file written
ConvertTxtFile ==
    /\ pc = "txt_given"
    /\ formatted' = format_lines_as_markdown(txt_lines)
    /\ md_file' = File(JoinNL(format_lines_as_markdown(txt_lines)))
    /\ pc' = "txt_converted"
    /\ UNCHANGED <<txt_lines, docx, tmp_md, out_docx, legacyVars, txt_file, batchVars, backupVars>>

\* a text file of Templates_txt has been read into lines (lines 77-78)
InitPromoter ==
    /\ pc = "txt_given"
    /\ txt_lines \in TxtInputs
    /\ formatted = <<>>
    /\ CodecIdle /\ LegacyIdle /\ BatchIdle /\ BackupIdle

NextPromoter == ConvertTxtFile

SpecPromoter == InitPromoter /\ [][NextPromoter]_vars

(***************************************************************************)
(* Claims about the plain-text promotion                                   *)
(***************************************************************************)
IsBlank(l) == \A k \in 1..Len(l) : l[k] \in Whitespace
NonBlankLines(ls) == {k \in 1..Len(ls) : ~IsBlank(ls[k])}
TrimmedLower(l) == to_lowercase(trim(l))

\* the promotion of line idx in the claim's words: body is the text that is
\* wrapped or passed through, len the measure of "at most 120"
ClaimPromote(ls, idx, body, len) ==
    LET nb == NonBlankLines(ls)
    IN IF idx \notin nb THEN body
       ELSE IF idx = MaxOf(nb) THEN Star1 \o body \o Star1
       ELSE IF \/ idx = MinOf(nb)
               \/ \E q \in SECTION_PREFIXES :
                     /\ Len(q) <= Len(TrimmedLower(ls[idx]))
                     /\ SubSeq(TrimmedLower(ls[idx]), 1, Len(q)) = q
               \/ (trim(ls[idx])[Len(trim(ls[idx]))] = ":" /\ len <= 120)
       THEN Stars2 \o body \o Stars2
       ELSE body

\* C10 as stated: one output line per input line; blank lines and the
\* remaining lines pass through unchanged, the last non-blank line is wrapped
\* in '*', a first, section-prefixed or colon-ended line of at most 120
\* characters in '**'.
C10_PromotionUnchanged ==
    pc = "txt_converted" =>
        /\ Len(formatted) = Len(txt_lines)
        /\ \A idx \in 1..Len(txt_lines) :
              formatted[idx] =
                  ClaimPromote(txt_lines, idx, txt_lines[idx], CharLen(trim(txt_lines[idx])))

\* C10 as amended: the same, but every output line is built from the
\* trimmed input line (a blank line gives the empty line), and the limit of
\* 120 is on the UTF-8 bytes of the trimmed, lower-cased line; the example
\* of the claim gives its stated result.
C10_PromotionTrimmed ==
    pc = "txt_converted" =>
        /\ Len(formatted) = Len(txt_lines)
        /\ \A idx \in 1..Len(txt_lines) :
              formatted[idx] =
                  ClaimPromote(txt_lines, idx, trim(txt_lines[idx]),
                               ByteLen(TrimmedLower(txt_lines[idx])))
        /\ txt_lines = ExampleTxt => formatted = ExampleMd

\* C10 witness: the example of the claim has been converted to the stated
\* result (a leading blank line, a first line, a section line, a plain line
\* and a last line)
C10_Witness ==
    /\ pc = "txt_converted"
    /\ txt_lines = ExampleTxt
    /\ formatted = ExampleMd

(***************************************************************************)
(* A run of a converter over a folder: the files are handled one by one,   *)
(* in sorted order; reading, parsing and writing can fail, and the first   *)
(* failure ends the run ('?').  pc: "start" (convert_from_docx entered),   *)
(* "loop" (the loop over the inputs), "folder" (convert_markdown_folder on *)
(* the temporary directory), and the ways to return: "ok", "err_input"     *)
(* (reading or parsing input file_idx failed), "err_io" (any other error). *)
(***************************************************************************)
InFile(st, c) == [state |-> st, content |-> c]
Outcome(r, f) == [res |-> r, out |-> f]

\* fs::write / Docx::write_file on a file that is old now: the new file is
\* written, or the write fails and leaves the file as it was or truncated
WriteOutcomes(old, new) ==
    {Outcome("ok", new), Outcome("err_io", old), Outcome("err_io", File(<<>>))}

\* convert_rtf_to_markdown on the text read from the file
convert_rtf_to_markdown(text) ==
    LET cleaned == Cleanup(text)
    IN JoinNL(CollapseBlank([k \in 1..Len(cleaned) |-> ClassifyLine(cleaned[k])], FALSE))

\* convert_to_docx.rs convert_file on input file f, the output being old
convert_file_io(f, old) ==
    IF f.state # "ok" THEN {Outcome("err_input", old)}
    ELSE {Outcome("err_io", old)}   \* create_dir_all fails
         \cup WriteOutcomes(old, File(convert_file(f.content)))

\* convert_to_markdown.rs main, one pass of the .docx loop
docx_to_markdown_io(f, old) ==
    IF f.state # "ok" THEN {Outcome("err_input", old)}
    ELSE WriteOutcomes(old, File(convert_docx_to_markdown(f.content)))

\* convert_to_markdown.rs main, one pass of the .rtf loop
rtf_to_markdown_io(f, old) ==
    IF f.state # "ok" THEN {Outcome("err_input", old)}
    ELSE WriteOutcomes(old, File(convert_rtf_to_markdown(f.content)))

\* mutant of convert_md_file: the output file is created before the input
\* is read
convert_md_file_CreateFirst(f, old) ==
    {Outcome("err_io", old)}
    \cup IF f.state # "ok" THEN {Outcome("err_input", File(<<>>))}
         ELSE WriteOutcomes(old, File(clean_markdown_text(f.content)))

\* convert_to_txt.rs convert_md_file
convert_md_file(f, old) ==
    {Outcome("err_io", old)}        \* create_dir_all fails
    \cup IF f.state # "ok" THEN {Outcome("err_input", old)}
         ELSE WriteOutcomes(old, File(clean_markdown_text(f.content)))

\* convert_txt_to_markdown.rs convert_txt_file
convert_txt_file(f, old) ==
    IF f.state # "ok" THEN {Outcome("err_input", old)}
    ELSE {Outcome("err_io", old)}   \* create_dir_all fails
         \cup WriteOutcomes(old,
                  File(JoinNL(format_lines_as_markdown(lines(f.content)))))

\* the outcomes of one pass of the loop of a converter's run
StepOutcomes(o, f, old) ==
    CASE o = "to_docx" -> convert_file_io(f, old)
      [] o = "docx_to_md" -> docx_to_markdown_io(f, old)
      [] o = "rtf_to_md" -> rtf_to_markdown_io(f, old)
      [] o = "md_to_txt" -> convert_md_file(f, old)
      [] o = "txt_to_md" -> convert_txt_file(f, old)

\* mutant of DropTempDir: the directory is left behind
DropTempDir_Leak(t) == t

\* TempDir's Drop: the directory and everything in it is removed
DropTempDir(t) == [state |-> "removed", files |-> <<>>]

MaxFiles == 2       \* input files of a run

Operations == {"to_docx", "docx_to_md", "rtf_to_md", "md_to_txt", "txt_to_md", "from_docx"}

MdSamples == {<<"*", "a", "*">>, <<"#", " ", "b">>}
DocSamples == {<<ClosingPara>>, <<<<InRun(<<"a">>, "true", "absent", "absent")>>, BlankPara>>}
RtfSamples == {<<"{", "x", "}", "E", "x", "a", "m", "e", " ", "1", ".">>}
TxtSamples == {<<"L", "a", "u", "d", "o", NL, "n", "o", "r", "m", "a", "l">>}

\* the input files a run can meet: readable ones, unreadable ones and, for
\* structured documents, ones that do not parse
InputsOf(o) ==
    {InFile("unreadable", <<>>)} \cup
    CASE o \in {"to_docx", "md_to_txt"} -> {InFile("ok", c) : c \in MdSamples}
      [] o \in {"docx_to_md", "from_docx"} ->
            {InFile("ok", c) : c \in DocSamples} \cup {InFile("malformed", <<>>)}
      [] o = "rtf_to_md" -> {InFile("ok", c) : c \in RtfSamples}
      [] o = "txt_to_md" -> {InFile("ok", c) : c \in TxtSamples}

\* an output file left by an earlier run
OldOutput(o) ==
    IF o = "to_docx" THEN File(<<OutPara("Both", <<OutRun(<<"o">>, FALSE, FALSE, 20)>>)>>)
    ELSE File(<<"o", "l", "d">>)

\* one pass of the loop over the input files of operation o
RunStep(o) ==
    /\ pc = "loop"
    /\ operation = o
    /\ file_idx <= Len(in_files)
    /\ \E w \in StepOutcomes(o, in_files[file_idx], out_files[file_idx]) :
          /\ out_files' = [out_files EXCEPT ![file_idx] = w.out]
          /\ pc' = IF w.res = "ok" THEN "loop" ELSE w.res
          /\ file_idx' = IF w.res = "ok" THEN file_idx + 1 ELSE file_idx
    /\ UNCHANGED <<operation, in_files, old_files, tmp_dir, txt_file,
                   codecVars, legacyVars, promoterVars, backupVars>>

\* convert_to_docx.rs main, lines 196-206
ToDocxStep == RunStep("to_docx")
\* convert_to_markdown.rs main, lines 300-316
DocxToMdStep == RunStep("docx_to_md")
\* convert_to_markdown.rs main, lines 326-342
RtfToMdStep == RunStep("rtf_to_md")
\* convert_to_txt.rs convert_markdown_folder, lines 42-52
MdToTxtStep == RunStep("md_to_txt")
\* convert_txt_to_markdown.rs convert_folder, lines 113-115
TxtToMdStep == RunStep("txt_to_md")

\* the loop is over (or there was no input file): the run returns Ok
RunDone ==
    /\ pc = "loop"
    /\ operation # "from_docx"
    /\ file_idx > Len(in_files)
    /\ pc' = "ok"
    /\ UNCHANGED <<batchVars, txt_file, codecVars, legacyVars, promoterVars, backupVars>>

\* convert_from_docx, lines 109-124: no input, or the temporary directory
\* is created (TempDir::new can fail)
FromDocxBegin ==
    /\ pc = "start"
    /\ operation = "from_docx"
    /\ IF in_files = <<>> THEN pc' = "ok" /\ UNCHANGED tmp_dir
       ELSE \/ pc' = "loop" /\ tmp_dir' = [state |-> "exists", files |-> <<>>]
            \/ pc' = "err_io" /\ UNCHANGED tmp_dir
    /\ UNCHANGED <<operation, in_files, out_files, old_files, file_idx, txt_file,
                   codecVars, legacyVars, promoterVars, backupVars>>

\* convert_from_docx, lines 126-141: one structured document is parsed and
\* its temporary Markdown written; an error returns, dropping tmp_dir
FromDocxDoc ==
    /\ pc = "loop"
    /\ operation = "from_docx"
    /\ file_idx <= Len(in_files)
    /\ IF in_files[file_idx].state # "ok"
       THEN pc' = "err_input" /\ tmp_dir' = DropTempDir(tmp_dir) /\ UNCHANGED file_idx
       ELSE \/ /\ tmp_dir' = [tmp_dir EXCEPT !.files = Append(@,
                       File(txt_convert_docx_to_markdown(in_files[file_idx].content)))]
               /\ file_idx' = file_idx + 1
               /\ UNCHANGED pc
            \/ pc' = "err_io" /\ tmp_dir' = DropTempDir(tmp_dir) /\ UNCHANGED file_idx
    /\ UNCHANGED <<operation, in_files, out_files, old_files, txt_file,
                   codecVars, legacyVars, promoterVars, backupVars>>

\* convert_from_docx, line 143: convert_markdown_folder is entered
FromDocxFolder ==
    /\ pc = "loop"
    /\ operation = "from_docx"
    /\ file_idx > Len(in_files)
    /\ pc' = "folder"
    /\ file_idx' = 1
    /\ UNCHANGED <<operation, in_files, out_files, old_files, tmp_dir, txt_file,
                   codecVars, legacyVars, promoterVars, backupVars>>

\* convert_markdown_folder on the temporary directory, lines 42-52: one
\* temporary Markdown file becomes a text file; an error returns through
\* convert_from_docx, dropping tmp_dir
FromDocxTxt ==
    /\ pc = "folder"
    /\ file_idx <= Len(tmp_dir.files)
    /\ \E w \in convert_md_file(InFile("ok", tmp_dir.files[file_idx].content),
                                out_files[file_idx]) :
          /\ out_files' = [out_files EXCEPT ![file_idx] = w.out]
          /\ IF w.res = "ok"
             THEN pc' = "folder" /\ file_idx' = file_idx + 1 /\ UNCHANGED tmp_dir
             ELSE pc' = w.res /\ UNCHANGED file_idx /\ tmp_dir' = DropTempDir(tmp_dir)
    /\ UNCHANGED <<operation, in_files, old_files, txt_file,
                   codecVars, legacyVars, promoterVars, backupVars>>

\* convert_from_docx, lines 143-146: Ok is returned, tmp_dir goes out of scope
FromDocxReturn ==
    /\ pc = "folder"
    /\ file_idx > Len(tmp_dir.files)
    /\ pc' = "ok"
    /\ tmp_dir' = DropTempDir(tmp_dir)
    /\ UNCHANGED <<operation, in_files, out_files, old_files, file_idx, txt_file,
                   codecVars, legacyVars, promoterVars, backupVars>>

\* a run is about to start on the files of its source folder; each output
\* file is absent or left by an earlier run
InitBatch ==
    /\ operation \in Operations
    /\ \E n \in 0..MaxFiles :
          /\ in_files \in [1..n -> InputsOf(operation)]
          /\ old_files \in [1..n -> {NoFile, OldOutput(operation)}]
    /\ out_files = old_files
    /\ tmp_dir = NoTmpDir
    /\ file_idx = 1
    /\ pc = IF operation = "from_docx" THEN "start" ELSE "loop"
    /\ txt_file = NoFile
    /\ CodecIdle /\ LegacyIdle /\ PromoterIdle /\ BackupIdle

NextBatch ==
    \/ ToDocxStep \/ DocxToMdStep \/ RtfToMdStep \/ MdToTxtStep \/ TxtToMdStep
    \/ RunDone
    \/ FromDocxBegin \/ FromDocxDoc \/ FromDocxFolder \/ FromDocxTxt \/ FromDocxReturn

SpecBatch == InitBatch /\ [][NextBatch]_vars

Returned == pc \in {"ok", "err_input", "err_io"}

\* C12: whenever convert_from_docx has returned after creating the
\* temporary directory (Ok, a structured document that failed to parse, a
\* temporary Markdown file that failed to be written, a failure in the
\* Markdown-to-text step), the directory and the files in it are gone.
C12_TempCleanedUp ==
    (operation = "from_docx" /\ Returned /\ tmp_dir.state # "none") =>
        (tmp_dir.state = "removed" /\ tmp_dir.files = <<>>)

\* C12 witness: the second structured document failed to parse after the
\* temporary Markdown of the first was written, and the directory is gone
C12_Witness ==
    /\ operation = "from_docx"
    /\ pc = "err_input"
    /\ file_idx = 2
    /\ tmp_dir.state = "removed"

\* what each conversion makes of the content c of a readable input
Expected(o, c) ==
    CASE o = "to_docx" -> convert_file(c)
      [] o = "docx_to_md" -> convert_docx_to_markdown(c)
      [] o = "rtf_to_md" -> convert_rtf_to_markdown(c)
      [] o = "md_to_txt" -> clean_markdown_text(c)
      [] o = "txt_to_md" -> JoinNL(format_lines_as_markdown(lines(c)))
      [] o = "from_docx" -> clean_markdown_text(txt_convert_docx_to_markdown(c))

\* C13: in every conversion, when reading or parsing an input document
\* fails the run returns an error (it never goes on past that document) and
\* the document's output file is as it was before the run; an output file
\* differs from what it was only if its input was read and transformed in
\* full, and then it holds the transformed input unless the write failed.
C13_NoOutputOnFailedInput ==
    /\ pc = "err_input" =>
          /\ in_files[file_idx].state # "ok"
          /\ out_files[file_idx] = old_files[file_idx]
    /\ pc = "loop" => \A k \in 1..(file_idx - 1) : in_files[k].state = "ok"
    /\ pc \in {"folder", "ok"} => \A k \in 1..Len(in_files) : in_files[k].state = "ok"
    /\ \A k \in 1..Len(in_files) :
          out_files[k] # old_files[k] =>
              /\ in_files[k].state = "ok"
              /\ \/ out_files[k] = File(Expected(operation, in_files[k].content))
                 \/ pc = "err_io" /\ k = file_idx

\* C13 witness: the second Markdown file could not be read after the first
\* was converted; the run returned the error and the text file left by an
\* earlier run is as it was
C13_Witness ==
    /\ operation = "md_to_txt"
    /\ pc = "err_input"
    /\ file_idx = 2
    /\ out_files[1] # old_files[1]
    /\ old_files[2].exists
    /\ out_files[2] = old_files[2]

(***************************************************************************)
(* backup.rs and generate_index.rs.  A path is the sequence of its         *)
(* components; a component is a string (a sequence of characters, the      *)
(* folder names being one atom each).                                      *)
(***************************************************************************)
TARGETS ==
    <<[folder |-> <<"Templates_docx">>, ext |-> <<"d", "o", "c", "x">>],
      [folder |-> <<"Templates_markdown">>, ext |-> <<"m", "d">>],
      [folder |-> <<"Templates_txt">>, ext |-> <<"t", "x", "t">>]>>

Folders == {TARGETS[k].folder : k \in 1..Len(TARGETS)}
ExtOf(folder) == TARGETS[CHOOSE k \in 1..Len(TARGETS) : TARGETS[k].folder = folder].ext

\* PathBuf::from(".")
Root == <<<<".">>>>
BackupDir == <<<<"backup">>>>

\* a directory entry of a target folder and its path, root.join(folder).join(name)
Entry(f, n, k) == [folder |-> f, name |-> n, kind |-> k]
PathOf(e) == Root \o <<e.folder, e.name>>

\* Path::strip_prefix(root).unwrap_or(path)
strip_prefix(path, root) ==
    IF Len(root) <= Len(path) /\ SubSeq(path, 1, Len(root)) = root
    THEN SubSeq(path, Len(root) + 1, Len(path))
    ELSE path

\* Path::extension: what follows the last '.' of the file name, if that dot
\* is not its first character (<<>> for None)
extension(name) ==
    LET dots == {k \in 2..Len(name) : name[k] = "."}
    IN IF dots = {} THEN <<>>
       ELSE SubSeq(name, (CHOOSE k \in dots : \A j \in dots : j <= k) + 1, Len(name))

\* str::eq_ignore_ascii_case
eq_ignore_ascii_case(a, b) ==
    LET fold(t) == [k \in 1..Len(t) |-> IF t[k] \in UpperAscii THEN LowerChar(t[k]) ELSE t[k]]
    IN fold(a) = fold(b)

\* is_file() and the extension test (backup.rs 57-67, generate_index.rs 28-34)
IsTargetFile(e) ==
    /\ e.kind = "file"
    /\ extension(e.name) # <<>>
    /\ eq_ignore_ascii_case(extension(e.name), ExtOf(e.folder))

\* generate_index.rs collect_files
collect_files ==
    [f \in Folders |->
        IF f \notin dirs THEN {}
        ELSE {strip_prefix(PathOf(e), Root) : e \in {x \in entries : x.folder = f /\ IsTargetFile(x)}}]

\* backup.rs move_unindexed, lines 48-53
ExpectedOf(index, folder) == IF folder \in DOMAIN index THEN index[folder] ELSE {}

\* mutant of should_keep: the path is looked up as it is, root included
should_keep_NoStrip(path, expected, root) == path \in expected

\* backup.rs should_keep
should_keep(path, expected, root) ==
    LET rel == strip_prefix(path, root)
    IN rel \in expected

\* backup.rs lines 72-73: where the file goes
DestOf(e) == BackupDir \o strip_prefix(PathOf(e), Root)

DocxDir == TARGETS[1].folder
MdDir == TARGETS[2].folder
TxtDir == TARGETS[3].folder

FileA == Entry(DocxDir, <<"a", ".", "d", "o", "c", "x">>, "file")
FileB == Entry(DocxDir, <<"b", ".", "D", "O", "C", "X">>, "file")
StrayMd == Entry(DocxDir, <<"c", ".", "m", "d">>, "file")
FileC == Entry(MdDir, <<"c", ".", "m", "d">>, "file")
SubDir == Entry(TxtDir, <<"n", ".", "t", "x", "t">>, "dir")
FileT == Entry(TxtDir, <<"a", ".", "t", "x", "t">>, "file")

EntryCandidates == {FileA, FileB, StrayMd, FileC, SubDir, FileT}

Rel(e) == <<e.folder, e.name>>
Manifest(ix) == [exists |-> TRUE, index |-> ix]
NoManifest == [exists |-> FALSE, index |-> <<>>]

\* the manifests a run of backup can find: none, an empty one, one with a
\* key missing, one listing a file (under its folder, under another folder,
\* with the root in front), one listing every file of EntryCandidates
InitManifests ==
    {NoManifest,
     Manifest([f \in Folders |-> {}]),
     Manifest([f \in {DocxDir} |-> {Rel(FileA)}]),
     Manifest([f \in Folders |-> IF f = MdDir THEN {Rel(FileA)} ELSE {}]),
     Manifest([f \in Folders |-> IF f = DocxDir THEN {PathOf(FileA)} ELSE {}]),
     Manifest([f \in Folders |->
                  {Rel(e) : e \in {x \in EntryCandidates : x.folder = f /\ x # StrayMd}}])}

\* generate_index.rs main: the manifest is rebuilt from the folders and written
GenerateIndex ==
    /\ pc = "idle"
    /\ ~fresh
    /\ manifest' = Manifest(collect_files)
    /\ fresh' = TRUE
    /\ UNCHANGED <<pc, dirs, entries, backup_entries, target_idx, visited, moved,
                   codecVars, legacyVars, promoterVars, txt_file, batchVars>>

\* backup.rs main and move_unindexed lines 37-39: the manifest is loaded and
\* backup/ created (either can fail)
BackupBegin ==
    /\ pc = "idle"
    /\ IF ~manifest.exists THEN pc' = "backup_err" /\ UNCHANGED <<target_idx, moved>>
       ELSE \/ pc' = "targets" /\ target_idx' = 1 /\ moved' = 0
            \/ pc' = "backup_err" /\ UNCHANGED <<target_idx, moved>>
    /\ UNCHANGED <<dirs, entries, backup_entries, manifest, fresh, visited,
                   codecVars, legacyVars, promoterVars, txt_file, batchVars>>

\* move_unindexed lines 42-46: a missing folder is skipped
BackupSkipFolder ==
    /\ pc = "targets"
    /\ target_idx <= Len(TARGETS)
    /\ TARGETS[target_idx].folder \notin dirs
    /\ target_idx' = target_idx + 1
    /\ UNCHANGED <<pc, dirs, entries, backup_entries, manifest, fresh, visited, moved,
                   codecVars, legacyVars, promoterVars, txt_file, batchVars>>

\* move_unindexed lines 55-94: one entry of the folder, in the order
\* read_dir gives them; an entry that cannot be read, or a failed
\* create_dir_all or rename, returns the error
BackupEntry ==
    /\ pc = "targets"
    /\ target_idx <= Len(TARGETS)
    /\ TARGETS[target_idx].folder \in dirs
    /\ \E e \in {x \in entries : x.folder = TARGETS[target_idx].folder} \ visited :
          LET expected == ExpectedOf(manifest.index, TARGETS[target_idx].folder)
          IN IF \/ ~IsTargetFile(e)
                \/ should_keep(PathOf(e), expected, Root)
                \/ DestOf(e) \in backup_entries
             THEN \/ /\ visited' = visited \cup {e}
                     /\ UNCHANGED <<pc, entries, backup_entries, moved>>
                  \/ /\ pc' = "backup_err"
                     /\ UNCHANGED <<visited, entries, backup_entries, moved>>
             ELSE \/ /\ entries' = entries \ {e}
                     /\ backup_entries' = backup_entries \cup {DestOf(e)}
                     /\ moved' = moved + 1
                     /\ UNCHANGED <<pc, visited>>
                  \/ /\ pc' = "backup_err"
                     /\ UNCHANGED <<visited, entries, backup_entries, moved>>
    /\ UNCHANGED <<dirs, manifest, fresh, target_idx,
                   codecVars, legacyVars, promoterVars, txt_file, batchVars>>

\* move_unindexed lines 55, 94: the folder has no entry left to handle
BackupFolderDone ==
    /\ pc = "targets"
    /\ target_idx <= Len(TARGETS)
    /\ TARGETS[target_idx].folder \in dirs
    /\ {x \in entries : x.folder = TARGETS[target_idx].folder} \subseteq visited
    /\ target_idx' = target_idx + 1
    /\ visited' = {}
    /\ UNCHANGED <<pc, dirs, entries, backup_entries, manifest, fresh, moved,
                   codecVars, legacyVars, promoterVars, txt_file, batchVars>>

\* move_unindexed line 97: Ok(moved)
BackupDone ==
    /\ pc = "targets"
    /\ target_idx > Len(TARGETS)
    /\ pc' = "backup_done"
    /\ UNCHANGED <<backupVars, codecVars, legacyVars, promoterVars, txt_file, batchVars>>

\* the repository root before a run: some target folders with entries, a
\* holding area that may already hold a file, some manifest
InitBackup ==
    /\ pc = "idle"
    /\ entries \in SUBSET EntryCandidates
    /\ dirs \in {{e.folder : e \in entries}, Folders}
    /\ backup_entries \in {{}, {DestOf(FileB)}}
    /\ manifest \in InitManifests
    /\ fresh = FALSE
    /\ target_idx = 0 /\ visited = {} /\ moved = 0
    /\ CodecIdle /\ LegacyIdle /\ PromoterIdle /\ BatchIdle

NextBackup ==
    \/ GenerateIndex \/ BackupBegin \/ BackupSkipFolder \/ BackupEntry
    \/ BackupFolderDone \/ BackupDone

SpecBackup == InitBackup /\ [][NextBackup]_vars

\* the entry's root-relative path is listed in the manifest under its folder
ClaimListed(e) ==
    /\ manifest.exists
    /\ e.folder \in DOMAIN manifest.index
    /\ <<e.folder, e.name>> \in manifest.index[e.folder]

\* C16: no step relocates a file listed in the manifest under its folder;
\* a file leaves its folder only if it is a regular file with the folder's
\* extension (in any case of letters), not listed, its place in the holding
\* area free, and it is then in the holding area; the run of backup leaves
\* the manifest as it is; after generate_index, with no file changed since,
\* backup moves no file.
C16_ListedFilesStay ==
    /\ [][\A e \in entries : ClaimListed(e) => e \in entries']_vars
    /\ [][\A e \in entries \ entries' :
            /\ e.kind = "file"
            /\ to_lowercase(extension(e.name)) = ExtOf(e.folder)
            /\ ~ClaimListed(e)
            /\ (BackupDir \o <<e.folder, e.name>>) \notin backup_entries
            /\ (BackupDir \o <<e.folder, e.name>>) \in backup_entries']_vars
    /\ [][(pc # "idle" \/ pc' # "idle") => manifest' = manifest]_vars
    /\ [](fresh => moved = 0 /\ (\A e \in entries : IsTargetFile(e) => ClaimListed(e)))

\* C16 witness: generate_index, then backup, ran over folders holding every
\* candidate entry; backup returned with nothing moved
C16_Witness ==
    /\ pc = "backup_done"
    /\ fresh
    /\ moved = 0
    /\ entries = EntryCandidates

====
